---------------------------- MODULE Spec2Model ----------------------------
(***************************************************************************)
(* The calculator state machine of src/project/src/App.tsx.                *)
(*                                                                         *)
(* Strings are sequences of one-character strings.  A JavaScript number is *)
(* a record [t, q]: t = "fin" is the finite value q/4 (the quarters are    *)
(* dyadic, so IEEE-754 arithmetic on them is exact), and the other tags    *)
(* are NaN, +Infinity, -Infinity, -0, Math.PI and Math.E.  A result that   *)
(* is none of these (1/3, 0.1, sin(1), a magnitude above MaxNum) is        *)
(* Beyond: a handler whose numbers leave the modelled domain is not        *)
(* explored further.  The arms of a CASE are read in order.                *)
(***************************************************************************)
EXTENDS Integers, Sequences, FiniteSets, TLC

(* ------------------------------ bounds -------------------------------- *)

\* Largest magnitude of a finite number the model follows.
MaxNum == 130
\* Longest display a digit or a decimal point is still appended to.
MaxLen == 6
\* Number of input events of a run of Spec.
MaxSteps == 4
\* Number of digit entries of a run of SpecDigits.
MaxDigits == 4
\* Number of input events of a run of SpecChain.
MaxChain == 6
\* Number of input events of a run of SpecHistory.
MaxHistorySteps == 11
\* Number of input events of a run of SpecDecimal.
MaxDecimalSteps == 5
\* Number of input events of a run of SpecMemory.
MaxMemorySteps == 6
\* Number of input events of a run of SpecFactorial.
MaxFactorialSteps == 5
\* Number of input events of a run of SpecFrame.
MaxFrameSteps == 3

(* ------------------------------ numbers ------------------------------- *)

Scale == 2 * 2

Fin(q) == [t |-> "fin", q |-> q]
NaN == [t |-> "nan", q |-> 0]
PInf == [t |-> "inf", q |-> 0]
NInf == [t |-> "ninf", q |-> 0]
NegZero == [t |-> "nzero", q |-> 0]
PI == [t |-> "pi", q |-> 0]
E == [t |-> "e", q |-> 0]
Beyond == [t |-> "beyond", q |-> 0]
null == [t |-> "null", q |-> 0]

Zero == Fin(0)
One == Fin(Scale)

Abs(i) == IF i < 0 THEN -i ELSE i

\* A finite value, or Beyond when its magnitude leaves the modelled range.
Norm(q) == IF Abs(q) > Scale * MaxNum THEN Beyond ELSE Fin(q)

IsZero(x) == x = Zero \/ x = NegZero
IsInf(x) == x = PInf \/ x = NInf
IsConst(x) == x = PI \/ x = E
\* The sign bit of a number that is not NaN.
IsNeg(x) == x = NInf \/ x = NegZero \/ (x.t = "fin" /\ x.q < 0)
SignedInf(neg) == IF neg THEN NInf ELSE PInf
SignedZero(neg) == IF neg THEN NegZero ELSE Zero

\* x < 0, x === 0, Number.isInteger(x) and the truthiness of x.
Lt0(x) == x = NInf \/ (x.t = "fin" /\ x.q < 0)
EqZero(x) == IsZero(x)
IsInteger(x) == x = NegZero \/ (x.t = "fin" /\ x.q % Scale = 0)
Truthy(x) == ~(IsZero(x) \/ x = NaN)

Neg(x) ==
  CASE x = Beyond -> Beyond
    [] x = NaN -> NaN
    [] x = PInf -> NInf
    [] x = NInf -> PInf
    [] x = Zero -> NegZero
    [] x = NegZero -> Zero
    [] IsConst(x) -> Beyond
    [] OTHER -> Fin(-x.q)

Add(a, b) ==
  CASE a = Beyond \/ b = Beyond -> Beyond
    [] a = NaN \/ b = NaN -> NaN
    [] IsInf(a) /\ IsInf(b) -> IF a = b THEN a ELSE NaN
    [] IsInf(a) -> a
    [] IsInf(b) -> b
    [] IsConst(a) -> IF IsZero(b) THEN a ELSE Beyond
    [] IsConst(b) -> IF IsZero(a) THEN b ELSE Beyond
    [] a = NegZero -> b
    [] b = NegZero -> a
    [] OTHER -> Norm(a.q + b.q)

Sub(a, b) ==
  CASE a = Beyond \/ b = Beyond -> Beyond
    [] a = NaN \/ b = NaN -> NaN
    [] IsConst(b) -> IF IsInf(a) THEN a ELSE Beyond
    [] OTHER -> Add(a, Neg(b))

Mul(a, b) ==
  CASE a = Beyond \/ b = Beyond -> Beyond
    [] a = NaN \/ b = NaN -> NaN
    [] (IsInf(a) /\ IsZero(b)) \/ (IsZero(a) /\ IsInf(b)) -> NaN
    [] IsInf(a) \/ IsInf(b) -> SignedInf(IsNeg(a) # IsNeg(b))
    [] IsZero(a) \/ IsZero(b) -> SignedZero(IsNeg(a) # IsNeg(b))
    [] IsConst(a) -> IF b = One THEN a ELSE Beyond
    [] IsConst(b) -> IF a = One THEN b ELSE Beyond
    [] OTHER -> IF (a.q * b.q) % Scale = 0
                THEN Norm((a.q * b.q) \div Scale)
                ELSE Beyond

\* a / b for a divisor b that is not a zero.
Div(a, b) ==
  CASE a = Beyond \/ b = Beyond -> Beyond
    [] a = NaN \/ b = NaN -> NaN
    [] IsInf(a) /\ IsInf(b) -> NaN
    [] IsInf(a) -> SignedInf(IsNeg(a) # IsNeg(b))
    [] IsInf(b) -> SignedZero(IsNeg(a) # IsNeg(b))
    [] IsZero(a) -> SignedZero(IsNeg(a) # IsNeg(b))
    [] IsConst(a) -> IF b = One THEN a ELSE Beyond
    [] IsConst(b) -> Beyond
    [] OTHER -> IF (Scale * Abs(a.q)) % Abs(b.q) = 0
                THEN LET m == (Scale * Abs(a.q)) \div Abs(b.q)
                     IN  Norm(IF IsNeg(a) # IsNeg(b) THEN -m ELSE m)
                ELSE Beyond

\* acc * a^k for a natural k, by repeated multiplication.
RECURSIVE PowUp(_, _, _)
PowUp(a, acc, k) ==
  IF k = 0 \/ acc = Beyond THEN acc ELSE PowUp(a, Mul(acc, a), k - 1)

IsOdd(x) == x.t = "fin" /\ x.q % Scale = 0 /\ (x.q \div Scale) % 2 = 1

\* Math.pow(base, exponent): Number::exponentiate of ECMA-262.
Pow(base, exponent) ==
  CASE base = Beyond \/ exponent = Beyond -> Beyond
    [] exponent = NaN -> NaN
    [] IsZero(exponent) -> One
    [] base = NaN -> NaN
    [] base = PInf -> IF IsNeg(exponent) THEN Zero ELSE PInf
    [] base = NInf -> IF IsNeg(exponent)
                      THEN SignedZero(IsOdd(exponent))
                      ELSE SignedInf(IsOdd(exponent))
    [] base = Zero -> IF IsNeg(exponent) THEN PInf ELSE Zero
    [] base = NegZero -> IF IsNeg(exponent)
                         THEN SignedInf(IsOdd(exponent))
                         ELSE SignedZero(IsOdd(exponent))
    [] IsInf(exponent) ->
         IF IsConst(base) \/ Abs(base.q) > Scale
         THEN (IF exponent = PInf THEN PInf ELSE Zero)
         ELSE IF Abs(base.q) = Scale THEN NaN
         ELSE (IF exponent = PInf THEN Zero ELSE PInf)
    [] IsConst(exponent) -> IF Lt0(base) THEN NaN ELSE Beyond
    [] ~IsInteger(exponent) -> IF Lt0(base) THEN NaN ELSE Beyond
    [] IsConst(base) -> IF exponent = One THEN base ELSE Beyond
    [] Abs(base.q) = Scale ->
         IF base = One \/ ~IsOdd(Fin(Abs(exponent.q))) THEN One ELSE Fin(-Scale)
    [] exponent.q > 0 -> PowUp(base, One, exponent.q \div Scale)
    [] OTHER -> LET p == PowUp(base, One, (-exponent.q) \div Scale)
                IN  IF p = Beyond THEN Beyond ELSE Div(One, p)

(* ------------------------------ strings ------------------------------- *)

DigitChars == <<"0", "1", "2", "3", "4", "5", "6", "7", "8", "9">>
AllDigits == {DigitChars[i] : i \in 1..Len(DigitChars)}
DigitVal(c) == CHOOSE i \in 0..9 : DigitChars[i + 1] = c

RECURSIVE NatToString(_)
NatToString(n) ==
  IF n < 10 THEN <<DigitChars[n + 1]>>
  ELSE NatToString(n \div 10) \o <<DigitChars[(n % 10) + 1]>>

PiText == <<"3", ".", "1", "4", "1", "5", "9", "2", "6", "5", "3", "5", "8",
            "9", "7", "9", "3">>
EText == <<"2", ".", "7", "1", "8", "2", "8", "1", "8", "2", "8", "4", "5",
           "9", "0", "4", "5">>
InfinityText == <<"I", "n", "f", "i", "n", "i", "t", "y">>
NaNText == <<"N", "a", "N">>
ErrorText == <<"E", "r", "r", "o", "r">>

\* String(x) and `${x}` of a number: Number::toString.
NumToString(x) ==
  CASE x = NaN -> NaNText
    [] x = PInf -> InfinityText
    [] x = NInf -> <<"-">> \o InfinityText
    [] x = NegZero -> <<"0">>
    [] x = PI -> PiText
    [] x = E -> EText
    [] OTHER ->
         LET a == Abs(x.q)
             frac == CASE a % Scale = 1 -> <<".", "2", "5">>
                       [] a % Scale = 2 -> <<".", "5">>
                       [] a % Scale = 3 -> <<".", "7", "5">>
                       [] OTHER -> <<>>
         IN  (IF x.q < 0 THEN <<"-">> ELSE <<>>)
               \o NatToString(a \div Scale) \o frac

IsPrefix(p, s) == Len(p) <= Len(s) /\ SubSeq(s, 1, Len(p)) = p

\* The longest prefix of s made of decimal digits.
RECURSIVE DigitPrefix(_)
DigitPrefix(s) ==
  IF s = <<>> \/ Head(s) \notin AllDigits THEN <<>>
  ELSE <<Head(s)>> \o DigitPrefix(Tail(s))

RECURSIVE DropTrailingZeros(_)
DropTrailingZeros(s) ==
  IF s # <<>> /\ s[Len(s)] = "0"
  THEN DropTrailingZeros(SubSeq(s, 1, Len(s) - 1))
  ELSE s

\* The value of a digit string, or MaxNum + 1 once it exceeds MaxNum.
RECURSIVE DigitsValue(_, _)
DigitsValue(s, acc) ==
  IF s = <<>> THEN acc
  ELSE IF acc > MaxNum THEN MaxNum + 1
  ELSE DigitsValue(Tail(s), 10 * acc + DigitVal(Head(s)))

\* parseFloat(s): the longest prefix of s that is a StrDecimalLiteral.  No
\* display holds white space, a "+" or an exponent part after a digit.
parseFloat(s) ==
  LET neg == s # <<>> /\ Head(s) = "-"
      rest == IF neg THEN Tail(s) ELSE s
      ip == DigitPrefix(rest)
      after == SubSeq(rest, Len(ip) + 1, Len(rest))
      fp == IF after # <<>> /\ Head(after) = "."
            THEN DigitPrefix(Tail(after)) ELSE <<>>
      fz == DropTrailingZeros(fp)
      n == DigitsValue(ip, 0)
      fq == CASE fz = <<>> -> 0
              [] fz = <<"2", "5">> -> 1
              [] fz = <<"5">> -> 2
              [] fz = <<"7", "5">> -> 3
              [] OTHER -> -1
  IN  CASE IsPrefix(InfinityText, rest) -> SignedInf(neg)
        [] ip = <<>> /\ fp = <<>> -> NaN
        [] ~neg /\ ip = <<"3">> /\ fp = SubSeq(PiText, 3, Len(PiText)) -> PI
        [] ~neg /\ ip = <<"2">> /\ fp = SubSeq(EText, 3, Len(EText)) -> E
        [] fq = -1 \/ n > MaxNum -> Beyond
        [] n = 0 /\ fq = 0 -> SignedZero(neg)
        [] OTHER -> Norm(IF neg THEN -(Scale * n + fq) ELSE Scale * n + fq)

(* ------------------------------- state -------------------------------- *)

VARIABLES
  display,             \* useState('0')
  previousValue,       \* useState<number | null>(null)
  operation,           \* useState<string | null>(null)
  waitingForNewValue,  \* useState(false)
  memory,              \* useState(0)
  history,             \* useState<HistoryEntry[]>([])
  isError,             \* useState(false)
  \* showHistory only decides whether the history panel and its two controls
  \* are rendered; it is read by no handler and is left out, the controls
  \* being there at all times.
  keys,                \* the input events handled so far (the last one in Spec)
  steps,               \* how many input events were handled
  before               \* the state the last input event was handled in

state == <<display, previousValue, operation, waitingForNewValue, memory,
           history, isError>>
vars == <<display, previousValue, operation, waitingForNewValue, memory,
          history, isError, keys, steps, before>>

\* The state as a record, for before.
snapshot ==
  [display |-> display, previousValue |-> previousValue,
   operation |-> operation, waitingForNewValue |-> waitingForNewValue,
   memory |-> memory, history |-> history, isError |-> isError]

nullOp == "null"
Operations == {"+", "-", "*", "/", "^"}

FnSin == <<"s", "i", "n">>
FnCos == <<"c", "o", "s">>
FnTan == <<"t", "a", "n">>
FnLog == <<"l", "o", "g">>
FnLn == <<"l", "n">>
FnSqrt == <<"s", "q", "r", "t">>
FnFact == <<"!">>
FnInv == <<"1", "/", "x">>
FnSquare == <<"x", "²">>
FnPi == <<"π">>
FnE == <<"e">>
Functions == {FnSin, FnCos, FnTan, FnLog, FnLn, FnSqrt, FnFact, FnInv,
              FnSquare, FnPi, FnE}
MemoryKeys == {"MC", "MR", "MS", "M+", "M-"}

\* What a throwing computation yields.
Thrown == [t |-> "throw", q |-> 0]

HistoryEntry(expression, result) ==
  [expression |-> expression, result |-> result]

\* Fault: the slice keeps ten of the old entries.
Prepend_KeepsTen(entry, prev) ==
  <<entry>> \o SubSeq(prev, 1, IF Len(prev) < 10 THEN Len(prev) ELSE 10)

\* [entry, ...prev.slice(0, 9)]
Prepend(entry, prev) ==
  <<entry>> \o SubSeq(prev, 1, IF Len(prev) < 9 THEN Len(prev) ELSE 9)

Init ==
  /\ display = <<"0">>
  /\ previousValue = null
  /\ operation = nullOp
  /\ waitingForNewValue = FALSE
  /\ memory = Zero
  /\ history = <<>>
  /\ isError = FALSE
  /\ keys = <<>>
  /\ steps = 0
  /\ before = snapshot

(* ------------------------------ handlers ------------------------------ *)

\* Fault: a digit is appended to the display "0" too.
handleNumber_KeepsLeadingZero(num) ==
  /\ ~waitingForNewValue => Len(display) < MaxLen
  /\ display' = IF waitingForNewValue THEN <<num>> ELSE display \o <<num>>
  /\ waitingForNewValue' = FALSE
  /\ isError' = FALSE
  /\ UNCHANGED <<previousValue, operation, memory, history>>

handleNumber(num) ==
  /\ (~waitingForNewValue /\ display # <<"0">>) => Len(display) < MaxLen
  /\ display' = IF waitingForNewValue THEN <<num>>
                ELSE IF display = <<"0">> THEN <<num>>
                ELSE display \o <<num>>
  /\ waitingForNewValue' = IF waitingForNewValue THEN FALSE
                           ELSE waitingForNewValue
  /\ isError' = IF isError THEN FALSE ELSE isError
  /\ UNCHANGED <<previousValue, operation, memory, history>>

\* Fault: the display is never found to hold a point.
HasPoint_Never(s) == FALSE

HasPoint(s) == \E i \in 1..Len(s) : s[i] = "."

handleDecimal ==
  IF isError
  THEN /\ display' = <<"0", ".">>
       /\ isError' = FALSE
       /\ UNCHANGED <<previousValue, operation, waitingForNewValue, memory,
                      history>>
  ELSE IF waitingForNewValue
  THEN /\ display' = <<"0", ".">>
       /\ waitingForNewValue' = FALSE
       /\ UNCHANGED <<previousValue, operation, memory, history, isError>>
  ELSE IF ~HasPoint(display)
  THEN /\ Len(display) < MaxLen
       /\ display' = display \o <<".">>
       /\ UNCHANGED <<previousValue, operation, waitingForNewValue, memory,
                      history, isError>>
  ELSE UNCHANGED state

\* Fault: "/" does not throw on a zero divisor.
calculate_NoZeroCheck(firstValue, secondValue, op) ==
  CASE op = "+" -> Add(firstValue, secondValue)
    [] op = "-" -> Sub(firstValue, secondValue)
    [] op = "*" -> Mul(firstValue, secondValue)
    [] op = "/" -> IF ~EqZero(secondValue) THEN Div(firstValue, secondValue)
                   ELSE IF firstValue = NaN \/ IsZero(firstValue) THEN NaN
                   ELSE SignedInf(IsNeg(firstValue) # IsNeg(secondValue))
    [] op = "^" -> Pow(firstValue, secondValue)
    [] OTHER -> secondValue

calculate(firstValue, secondValue, op) ==
  CASE op = "+" -> Add(firstValue, secondValue)
    [] op = "-" -> Sub(firstValue, secondValue)
    [] op = "*" -> Mul(firstValue, secondValue)
    [] op = "/" -> IF EqZero(secondValue) THEN Thrown
                   ELSE Div(firstValue, secondValue)
    [] op = "^" -> Pow(firstValue, secondValue)
    [] OTHER -> secondValue

\* `${a} ${op} ${b}`
BinaryExpression(a, op, b) ==
  NumToString(a) \o <<" ", op, " ">> \o NumToString(b)

\* Fault: an operator pressed while an operation is pending replaces the
\* pending operator and resolves nothing.
handleOperation_NoChaining(nextOperation) ==
  LET inputValue == parseFloat(display) IN
  /\ inputValue # Beyond
  /\ previousValue' = IF previousValue = null THEN inputValue
                      ELSE previousValue
  /\ waitingForNewValue' = TRUE
  /\ operation' = nextOperation
  /\ UNCHANGED <<display, memory, history, isError>>

handleOperation(nextOperation) ==
  LET inputValue == parseFloat(display) IN
  /\ inputValue # Beyond
  /\ IF previousValue = null
     THEN /\ previousValue' = inputValue
          /\ waitingForNewValue' = TRUE
          /\ operation' = nextOperation
          /\ UNCHANGED <<display, memory, history, isError>>
     ELSE IF operation # nullOp
     THEN LET currentValue == IF Truthy(previousValue) THEN previousValue
                              ELSE Zero
              newValue == calculate(currentValue, inputValue, operation)
          IN  IF newValue = Thrown
              THEN /\ display' = ErrorText
                   /\ isError' = TRUE
                   /\ previousValue' = null
                   /\ operation' = nullOp
                   /\ UNCHANGED <<waitingForNewValue, memory, history>>
              ELSE /\ newValue # Beyond
                   /\ display' = NumToString(newValue)
                   /\ previousValue' = newValue
                   /\ history' = Prepend(
                        HistoryEntry(
                          BinaryExpression(currentValue, operation, inputValue),
                          NumToString(newValue)),
                        history)
                   /\ waitingForNewValue' = TRUE
                   /\ operation' = nextOperation
                   /\ UNCHANGED <<memory, isError>>
     ELSE /\ waitingForNewValue' = TRUE
          /\ operation' = nextOperation
          /\ UNCHANGED <<display, previousValue, memory, history, isError>>

\* Fault: equals sets awaiting-new-entry when nothing is pending too.
handleEquals_AlwaysAwaits ==
  LET inputValue == parseFloat(display) IN
  IF previousValue # null /\ operation # nullOp
  THEN LET newValue == calculate(previousValue, inputValue, operation) IN
       /\ inputValue # Beyond
       /\ IF newValue = Thrown
          THEN /\ display' = ErrorText
               /\ isError' = TRUE
               /\ previousValue' = null
               /\ operation' = nullOp
               /\ UNCHANGED <<waitingForNewValue, memory, history>>
          ELSE /\ newValue # Beyond
               /\ display' = NumToString(newValue)
               /\ history' = Prepend(
                    HistoryEntry(
                      BinaryExpression(previousValue, operation, inputValue),
                      NumToString(newValue)),
                    history)
               /\ previousValue' = null
               /\ operation' = nullOp
               /\ waitingForNewValue' = TRUE
               /\ UNCHANGED <<memory, isError>>
  ELSE /\ waitingForNewValue' = TRUE
       /\ UNCHANGED <<display, previousValue, operation, memory, history,
                      isError>>

handleEquals ==
  LET inputValue == parseFloat(display) IN
  IF previousValue # null /\ operation # nullOp
  THEN LET newValue == calculate(previousValue, inputValue, operation) IN
       /\ inputValue # Beyond
       /\ IF newValue = Thrown
          THEN /\ display' = ErrorText
               /\ isError' = TRUE
               /\ previousValue' = null
               /\ operation' = nullOp
               /\ UNCHANGED <<waitingForNewValue, memory, history>>
          ELSE /\ newValue # Beyond
               /\ display' = NumToString(newValue)
               /\ history' = Prepend(
                    HistoryEntry(
                      BinaryExpression(previousValue, operation, inputValue),
                      NumToString(newValue)),
                    history)
               /\ previousValue' = null
               /\ operation' = nullOp
               /\ waitingForNewValue' = TRUE
               /\ UNCHANGED <<memory, isError>>
  ELSE UNCHANGED state

\* acc * k * (k + 1) * ... * n, or Beyond once it leaves the modelled range.
RECURSIVE FactUp(_, _, _)
FactUp(k, acc, n) ==
  IF k > n \/ acc = Beyond THEN acc
  ELSE FactUp(k + 1, Mul(acc, Fin(Scale * k)), n)

\* Fault: the factorial of 0 is 0.
factorial_ZeroGivesZero(n) ==
  IF n = Zero \/ n = NegZero THEN Zero
  ELSE IF n = One THEN One
  ELSE FactUp(2, One, n.q \div Scale)

\* factorial(n) for an integer n >= 0: 1 for 0 and 1, else n * factorial(n - 1).
\* The product is exact, so it is the same taken from the small factors up.
factorial(n) ==
  IF n = Zero \/ n = NegZero \/ n = One THEN One
  ELSE FactUp(2, One, n.q \div Scale)

\* The r with r * r = n, when there is one.
IntSqrt(n) == IF \E r \in 0..n : r * r = n
              THEN CHOOSE r \in 0..n : r * r = n
              ELSE -1

\* The exact values of the Math functions inside the modelled domain.
MathSin(x) ==
  CASE x = Beyond -> Beyond
    [] x = NaN \/ IsInf(x) -> NaN
    [] IsZero(x) -> x
    [] OTHER -> Beyond

MathCos(x) ==
  CASE x = Beyond -> Beyond
    [] x = NaN \/ IsInf(x) -> NaN
    [] IsZero(x) -> One
    [] OTHER -> Beyond

MathTan(x) == MathSin(x)

MathLog10(x) ==
  CASE x = Beyond -> Beyond
    [] x = NaN \/ Lt0(x) -> NaN
    [] IsZero(x) -> NInf
    [] x = PInf -> PInf
    [] x = One -> Zero
    [] x = Fin(Scale * 10) -> One
    [] x = Fin(Scale * 100) -> Fin(Scale * 2)
    [] OTHER -> Beyond

MathLog(x) ==
  CASE x = Beyond -> Beyond
    [] x = NaN \/ Lt0(x) -> NaN
    [] IsZero(x) -> NInf
    [] x = PInf -> PInf
    [] x = One -> Zero
    [] x = E -> One
    [] OTHER -> Beyond

MathSqrt(x) ==
  CASE x = Beyond -> Beyond
    [] x = NaN \/ Lt0(x) -> NaN
    [] IsZero(x) \/ x = PInf -> x
    [] IsConst(x) -> Beyond
    [] OTHER -> LET r == IntSqrt(Scale * x.q)
                IN  IF r = -1 THEN Beyond ELSE Fin(r)

\* The switch of handleScientific: the result, or Thrown.
Scientific(func, inputValue) ==
  CASE func = FnSin -> MathSin(inputValue)
    [] func = FnCos -> MathCos(inputValue)
    [] func = FnTan -> MathTan(inputValue)
    [] func = FnLog -> MathLog10(inputValue)
    [] func = FnLn -> MathLog(inputValue)
    [] func = FnSqrt -> IF Lt0(inputValue) THEN Thrown
                        ELSE MathSqrt(inputValue)
    [] func = FnFact -> IF Lt0(inputValue) \/ ~IsInteger(inputValue)
                        THEN Thrown
                        ELSE factorial(inputValue)
    [] func = FnInv -> IF EqZero(inputValue) THEN Thrown
                       ELSE Div(One, inputValue)
    [] func = FnSquare -> Mul(inputValue, inputValue)
    [] func = FnPi -> PI
    [] func = FnE -> E

\* `${func}(${inputValue})`
UnaryExpression(func, inputValue) ==
  func \o <<"(">> \o NumToString(inputValue) \o <<")">>

\* Fault: a successful function drops the pending operation.
handleScientific_DropsPending(func) ==
  LET inputValue == parseFloat(display)
      result == Scientific(func, inputValue)
  IN  /\ inputValue # Beyond
      /\ IF result = Thrown
         THEN /\ display' = ErrorText
              /\ isError' = TRUE
              /\ UNCHANGED <<previousValue, operation, waitingForNewValue,
                             memory, history>>
         ELSE /\ result # Beyond
              /\ display' = NumToString(result)
              /\ history' = Prepend(
                   HistoryEntry(UnaryExpression(func, inputValue),
                                NumToString(result)),
                   history)
              /\ waitingForNewValue' = TRUE
              /\ previousValue' = null
              /\ operation' = nullOp
              /\ UNCHANGED <<memory, isError>>

handleScientific(func) ==
  LET inputValue == parseFloat(display)
      result == Scientific(func, inputValue)
  IN  /\ inputValue # Beyond
      /\ IF result = Thrown
         THEN /\ display' = ErrorText
              /\ isError' = TRUE
              /\ UNCHANGED <<previousValue, operation, waitingForNewValue,
                             memory, history>>
         ELSE /\ result # Beyond
              /\ display' = NumToString(result)
              /\ history' = Prepend(
                   HistoryEntry(UnaryExpression(func, inputValue),
                                NumToString(result)),
                   history)
              /\ waitingForNewValue' = TRUE
              /\ UNCHANGED <<previousValue, operation, memory,
                             isError>>

\* Fault: clear leaves the pending operator.
handleClear_KeepsOperation ==
  /\ display' = <<"0">>
  /\ previousValue' = null
  /\ waitingForNewValue' = FALSE
  /\ isError' = FALSE
  /\ UNCHANGED <<operation, memory, history>>

handleClear ==
  /\ display' = <<"0">>
  /\ previousValue' = null
  /\ operation' = nullOp
  /\ waitingForNewValue' = FALSE
  /\ isError' = FALSE
  /\ UNCHANGED <<memory, history>>

\* Fault: allClear leaves the memory.
handleAllClear_KeepsMemory ==
  /\ display' = <<"0">>
  /\ previousValue' = null
  /\ operation' = nullOp
  /\ waitingForNewValue' = FALSE
  /\ isError' = FALSE
  /\ history' = <<>>
  /\ UNCHANGED memory

handleAllClear ==
  /\ display' = <<"0">>
  /\ previousValue' = null
  /\ operation' = nullOp
  /\ waitingForNewValue' = FALSE
  /\ isError' = FALSE
  /\ memory' = Zero
  /\ history' = <<>>
  
\* Fault: MS sets awaiting-new-entry.
handleMemory_StoreSetsAwaiting(func) ==
  LET inputValue == parseFloat(display) IN
  CASE func = "MC" ->
         /\ memory' = Zero
         /\ UNCHANGED <<display, previousValue, operation,
                        waitingForNewValue, history, isError>>
    [] func = "MR" ->
         /\ display' = NumToString(memory)
         /\ waitingForNewValue' = TRUE
         /\ UNCHANGED <<previousValue, operation, memory, history, isError>>
    [] func = "MS" ->
         /\ inputValue # Beyond
         /\ memory' = inputValue
         /\ waitingForNewValue' = TRUE
         /\ UNCHANGED <<display, previousValue, operation, history, isError>>
    [] func = "M+" ->
         /\ inputValue # Beyond
         /\ Add(memory, inputValue) # Beyond
         /\ memory' = Add(memory, inputValue)
         /\ UNCHANGED <<display, previousValue, operation,
                        waitingForNewValue, history, isError>>
    [] func = "M-" ->
         /\ inputValue # Beyond
         /\ Sub(memory, inputValue) # Beyond
         /\ memory' = Sub(memory, inputValue)
         /\ UNCHANGED <<display, previousValue, operation,
                        waitingForNewValue, history, isError>>

\* Fault: MC leaves the memory as it is.
handleMemory_MCKeeps(func) ==
  LET inputValue == parseFloat(display) IN
  CASE func = "MC" -> UNCHANGED state
    [] func = "MR" ->
         /\ display' = NumToString(memory)
         /\ waitingForNewValue' = TRUE
         /\ UNCHANGED <<previousValue, operation, memory, history, isError>>
    [] func = "MS" ->
         /\ inputValue # Beyond
         /\ memory' = inputValue
         /\ UNCHANGED <<display, previousValue, operation,
                        waitingForNewValue, history, isError>>
    [] func = "M+" ->
         /\ inputValue # Beyond
         /\ Add(memory, inputValue) # Beyond
         /\ memory' = Add(memory, inputValue)
         /\ UNCHANGED <<display, previousValue, operation,
                        waitingForNewValue, history, isError>>
    [] func = "M-" ->
         /\ inputValue # Beyond
         /\ Sub(memory, inputValue) # Beyond
         /\ memory' = Sub(memory, inputValue)
         /\ UNCHANGED <<display, previousValue, operation,
                        waitingForNewValue, history, isError>>

handleMemory(func) ==
  LET inputValue == parseFloat(display) IN
  CASE func = "MC" ->
         /\ memory' = Zero
         /\ UNCHANGED <<display, previousValue, operation,
                        waitingForNewValue, history, isError>>
    [] func = "MR" ->
         /\ display' = NumToString(memory)
         /\ waitingForNewValue' = TRUE
         /\ UNCHANGED <<previousValue, operation, memory, history, isError>>
    [] func = "MS" ->
         /\ inputValue # Beyond
         /\ memory' = inputValue
         /\ UNCHANGED <<display, previousValue, operation,
                        waitingForNewValue, history, isError>>
    [] func = "M+" ->
         /\ inputValue # Beyond
         /\ Add(memory, inputValue) # Beyond
         /\ memory' = Add(memory, inputValue)
         /\ UNCHANGED <<display, previousValue, operation,
                        waitingForNewValue, history, isError>>
    [] func = "M-" ->
         /\ inputValue # Beyond
         /\ Sub(memory, inputValue) # Beyond
         /\ memory' = Sub(memory, inputValue)
         /\ UNCHANGED <<display, previousValue, operation,
                        waitingForNewValue, history, isError>>

\* Fault: backspace leaves the error state.
backspace_ClearsError ==
  /\ display' = IF Len(display) > 1
                THEN SubSeq(display, 1, Len(display) - 1)
                ELSE <<"0">>
  /\ isError' = FALSE
  /\ UNCHANGED <<previousValue, operation, waitingForNewValue, memory,
                 history>>

\* The backspace button, and the Backspace key of handleKeyPress.
backspace ==
  /\ display' = IF Len(display) > 1
                THEN SubSeq(display, 1, Len(display) - 1)
                ELSE <<"0">>
  /\ UNCHANGED <<previousValue, operation, waitingForNewValue, memory,
                 history, isError>>

\* The history panel's reset button.
clearHistory ==
  /\ history' = <<>>
  /\ UNCHANGED <<display, previousValue, operation, waitingForNewValue,
                 memory, isError>>

\* Fault: a recalled entry leaves the error state.
recallHistoryEntry_ClearsError(index) ==
  /\ index \in 1..Len(history)
  /\ display' = history[index].result
  /\ waitingForNewValue' = TRUE
  /\ isError' = FALSE
  /\ UNCHANGED <<previousValue, operation, memory, history>>

\* A click on the index-th entry of the history panel.
recallHistoryEntry(index) ==
  /\ index \in 1..Len(history)
  /\ display' = history[index].result
  /\ waitingForNewValue' = TRUE
  /\ UNCHANGED <<previousValue, operation, memory, history,
                 isError>>

(* --------------------------- specifications --------------------------- *)

Tok(k, a) == [k |-> k, a |-> a]

\* One input event: the handler A runs to completion.  keys holds the event
\* (all the events of the run when logged), before the state it was handled in.
Event(A, tok, bound, logged) ==
  /\ steps < bound
  /\ A
  /\ keys' = IF logged THEN Append(keys, tok) ELSE <<tok>>
  /\ steps' = steps + 1
  /\ before' = snapshot

Do(A, tok) == Event(A, tok, MaxSteps, FALSE)

Digits == {"0", "5"}

\* Every input of the calculator, in runs of up to MaxSteps events.
Next ==
  \/ \E d \in Digits : Do(handleNumber(d), Tok("digit", <<d>>))
  \/ Do(handleDecimal, Tok("decimal", <<>>))
  \/ Do(backspace, Tok("backspace", <<>>))
  \/ \E op \in Operations : Do(handleOperation(op), Tok("operator", <<op>>))
  \/ Do(handleEquals, Tok("equals", <<>>))
  \/ \E f \in Functions : Do(handleScientific(f), Tok("function", f))
  \/ \E m \in MemoryKeys : Do(handleMemory(m), Tok("memory", <<m>>))
  \/ Do(handleClear, Tok("clear", <<>>))
  \/ Do(handleAllClear, Tok("allClear", <<>>))
  \/ Do(clearHistory, Tok("clearHistory", <<>>))
  \/ \E i \in 1..Len(history) :
       Do(recallHistoryEntry(i), Tok("recall", NatToString(i)))

Spec == Init /\ [][Next]_vars

\* Digit entries only, all of them logged.
NextDigits ==
  \E d \in AllDigits :
    Event(handleNumber(d), Tok("digit", <<d>>), MaxDigits, TRUE)

SpecDigits == Init /\ [][NextDigits]_vars

ChainDigits == {"0", "2", "3", "4"}

\* What was pressed last in a logged run.
LastIs(k) == keys # <<>> /\ keys[Len(keys)].k = k

\* Numbers separated by binary operators and ended by equals, all logged:
\* an operator or equals follows a digit, and nothing follows equals.
NextChain ==
  \/ \E d \in ChainDigits :
       /\ ~LastIs("equals")
       /\ Event(handleNumber(d), Tok("digit", <<d>>), MaxChain, TRUE)
  \/ \E op \in Operations :
       /\ LastIs("digit")
       /\ Event(handleOperation(op), Tok("operator", <<op>>), MaxChain, TRUE)
  \/ /\ LastIs("digit")
     /\ Event(handleEquals, Tok("equals", <<>>), MaxChain, TRUE)

SpecChain == Init /\ [][NextChain]_vars

HistoryFunctions == {FnCos, FnSquare}

\* Operations that add to the history, in runs long enough to fill it.
NextHistory ==
  \/ Event(handleOperation("+"), Tok("operator", <<"+">>),
           MaxHistorySteps, FALSE)
  \/ Event(handleEquals, Tok("equals", <<>>), MaxHistorySteps, FALSE)
  \/ \E f \in HistoryFunctions :
       Event(handleScientific(f), Tok("function", f), MaxHistorySteps, FALSE)

SpecHistory == Init /\ [][NextHistory]_vars

DecimalFunctions == {FnCos, FnInv}

\* Inputs that reach every combination of the error flag, awaiting-new-entry
\* and a display with or without a point.  keys holds the decimal points
\* entered in a row, or else the last event.
NextDecimal ==
  \/ Event(handleDecimal, Tok("decimal", <<>>), MaxDecimalSteps,
           LastIs("decimal"))
  \/ Event(handleNumber("5"), Tok("digit", <<"5">>), MaxDecimalSteps, FALSE)
  \/ Event(backspace, Tok("backspace", <<>>), MaxDecimalSteps, FALSE)
  \/ Event(handleOperation("/"), Tok("operator", <<"/">>), MaxDecimalSteps,
           FALSE)
  \/ Event(handleEquals, Tok("equals", <<>>), MaxDecimalSteps, FALSE)
  \/ \E f \in DecimalFunctions :
       Event(handleScientific(f), Tok("function", f), MaxDecimalSteps, FALSE)
  \/ Event(handleMemory("MR"), Tok("memory", <<"MR">>), MaxDecimalSteps, FALSE)
  \/ Event(handleClear, Tok("clear", <<>>), MaxDecimalSteps, FALSE)

SpecDecimal == Init /\ [][NextDecimal]_vars

MemoryDigits == {"2", "4"}

\* What is logged of a run of NextMemory.
LastMemoryIs(m) == LastIs("memory") /\ keys[Len(keys)].a = <<m>>
Cleared == \E i \in 1..Len(keys) : keys[i] = Tok("memory", <<"MC">>)
Recalled == Cleared /\ LastMemoryIs("MR")

\* Digits, M+, MR and MS, then MC right after an MS, then inputs that are not
\* memory commands, then MR, all logged.
NextMemory ==
  \/ \E d \in MemoryDigits :
       /\ ~Recalled
       /\ Event(handleNumber(d), Tok("digit", <<d>>), MaxMemorySteps, TRUE)
  \/ \E m \in {"MS", "M+"} :
       /\ ~Cleared
       /\ Event(handleMemory(m), Tok("memory", <<m>>), MaxMemorySteps, TRUE)
  \/ /\ ~Cleared /\ LastMemoryIs("MS")
     /\ Event(handleMemory("MC"), Tok("memory", <<"MC">>), MaxMemorySteps,
              TRUE)
  \/ /\ ~Recalled
     /\ Event(handleMemory("MR"), Tok("memory", <<"MR">>), MaxMemorySteps,
              TRUE)
  \/ /\ Cleared /\ ~Recalled
     /\ \/ Event(handleDecimal, Tok("decimal", <<>>), MaxMemorySteps, TRUE)
        \/ Event(backspace, Tok("backspace", <<>>), MaxMemorySteps, TRUE)
        \/ Event(handleOperation("+"), Tok("operator", <<"+">>),
                 MaxMemorySteps, TRUE)
        \/ Event(handleEquals, Tok("equals", <<>>), MaxMemorySteps, TRUE)
        \/ Event(handleScientific(FnSquare), Tok("function", FnSquare),
                 MaxMemorySteps, TRUE)
        \/ Event(handleClear, Tok("clear", <<>>), MaxMemorySteps, TRUE)

SpecMemory == Init /\ [][NextMemory]_vars

FactorialDigits == {"0", "1", "2", "3", "4", "5"}

\* The inputs that put a natural number, a fraction or a negative number on
\* the display, and the factorial function.
NextFactorial ==
  \/ \E d \in FactorialDigits :
       Event(handleNumber(d), Tok("digit", <<d>>), MaxFactorialSteps, FALSE)
  \/ Event(handleDecimal, Tok("decimal", <<>>), MaxFactorialSteps, FALSE)
  \/ Event(handleOperation("-"), Tok("operator", <<"-">>), MaxFactorialSteps,
           FALSE)
  \/ Event(handleEquals, Tok("equals", <<>>), MaxFactorialSteps, FALSE)
  \/ Event(handleScientific(FnFact), Tok("function", FnFact),
           MaxFactorialSteps, FALSE)

SpecFactorial == Init /\ [][NextFactorial]_vars

\* Every input of the calculator, in runs of up to MaxFrameSteps events.
NextFrame ==
  \/ \E d \in Digits :
       Event(handleNumber(d), Tok("digit", <<d>>), MaxFrameSteps, FALSE)
  \/ Event(handleDecimal, Tok("decimal", <<>>), MaxFrameSteps, FALSE)
  \/ Event(backspace, Tok("backspace", <<>>), MaxFrameSteps, FALSE)
  \/ \E op \in Operations :
       Event(handleOperation(op), Tok("operator", <<op>>), MaxFrameSteps,
             FALSE)
  \/ Event(handleEquals, Tok("equals", <<>>), MaxFrameSteps, FALSE)
  \/ \E f \in Functions :
       Event(handleScientific(f), Tok("function", f), MaxFrameSteps, FALSE)
  \/ \E m \in MemoryKeys :
       Event(handleMemory(m), Tok("memory", <<m>>), MaxFrameSteps, FALSE)
  \/ Event(handleClear, Tok("clear", <<>>), MaxFrameSteps, FALSE)
  \/ Event(handleAllClear, Tok("allClear", <<>>), MaxFrameSteps, FALSE)
  \/ Event(clearHistory, Tok("clearHistory", <<>>), MaxFrameSteps, FALSE)
  \/ \E i \in 1..Len(history) :
       Event(recallHistoryEntry(i), Tok("recall", NatToString(i)),
             MaxFrameSteps, FALSE)

SpecFrame == Init /\ [][NextFrame]_vars

LastKey == keys[Len(keys)]
Pressed(k) == steps > 0 /\ LastKey.k = k

(* ------------------------------- claims ------------------------------- *)

\* The pending operation the last event found, and what resolving it against
\* the display of that moment yields: a number, or Thrown.
WasPending == before.previousValue # null /\ before.operation # nullOp
WasInput == parseFloat(before.display)

\* C1: a digit entered while the error flag is set clears the flag and
\* leaves the display equal to that single digit.
C1_DigitAfterErrorShowsDigit ==
  (Pressed("digit") /\ before.isError)
    => (~isError /\ display = LastKey.a)

\* C2: when equals or an operator resolves a pending "/" against a display
\* that is zero, the display becomes the error sentinel, the error flag is
\* set, the pending operand and operator are cleared and the history is as
\* it was.
C2_DivisionByZeroEntersError ==
  ((Pressed("equals") \/ Pressed("operator"))
     /\ WasPending /\ before.operation = "/" /\ IsZero(WasInput))
    => /\ display = ErrorText
       /\ isError
       /\ previousValue = null
       /\ operation = nullOp
       /\ history = before.history

C2_Witness ==
  /\ Pressed("operator")
  /\ WasPending /\ before.operation = "/" /\ IsZero(WasInput)
  /\ before.previousValue = Fin(Scale * 5)
  /\ ~before.isError
  /\ isError

\* C5: a failing unary function sets the display to the error sentinel, sets
\* the error flag, clears the pending operand and operator and leaves the
\* history as it was.
C5_FailingFunctionEntersError ==
  (Pressed("function") /\ Scientific(LastKey.a, WasInput) = Thrown)
    => /\ display = ErrorText
       /\ isError
       /\ previousValue = null
       /\ operation = nullOp
       /\ history = before.history

\* C6: while the error flag is set the display is the error sentinel.
C6_ErrorFlagShowsSentinel == isError => display = ErrorText

\* C7: the pending operand and the pending operator are both present or both
\* absent.
C7_PendingPairTogether == (previousValue = null) <=> (operation = nullOp)

C7_Witness ==
  /\ Pressed("operator")
  /\ WasPending
  /\ previousValue # null /\ operation = LastKey.a[1]
  /\ operation # before.operation

Count(s, c) == Cardinality({i \in 1..Len(s) : s[i] = c})

\* C8: the display is never empty and holds at most one decimal point.
C8_DisplayWellFormed == Len(display) >= 1 /\ Count(display, ".") <= 1

C8_Witness ==
  /\ Pressed("decimal")
  /\ ~before.isError /\ ~before.waitingForNewValue
  /\ Count(before.display, ".") = 1
  /\ display = before.display

\* C9: allClear leaves display "0", no pending operand or operator, both
\* flags false, memory 0 and an empty history; clear leaves the same display,
\* pending state and flags, and memory and history as they were.
C9_ResetsRestoreInitialState ==
  /\ Pressed("allClear")
       => /\ display = <<"0">>
          /\ previousValue = null /\ operation = nullOp
          /\ ~waitingForNewValue /\ ~isError
          /\ memory = Zero /\ history = <<>>
  /\ Pressed("clear")
       => /\ display = <<"0">>
          /\ previousValue = null /\ operation = nullOp
          /\ ~waitingForNewValue /\ ~isError
          /\ memory = before.memory /\ history = before.history

C9_Witness ==
  /\ Pressed("allClear")
  /\ before.memory # Zero
  /\ before.history # <<>>
  /\ before.display # <<"0">>
  /\ before.waitingForNewValue

\* The digits of the logged events, in order.
TypedDigits == [i \in 1..Len(keys) |-> keys[i].a[1]]

\* s without its leading zeros, of which the last one stays.
RECURSIVE CollapseLeadingZeros(_)
CollapseLeadingZeros(s) ==
  IF Len(s) > 1 /\ Head(s) = "0" THEN CollapseLeadingZeros(Tail(s)) ELSE s

\* C10: after a run of digit entries alone the display is the digits entered,
\* leading zeros collapsed.
C10_DigitsConcatenate ==
  steps > 0 => display = CollapseLeadingZeros(TypedDigits)

C10_Witness ==
  /\ Len(keys) = 3
  /\ TypedDigits = <<"0", "0", "5">>
  /\ display = <<"5">>

\* The logged events lo..hi are digit entries, at least one; the number typed.
DigitRun(lo, hi) == lo <= hi /\ \A k \in lo..hi : keys[k].k = "digit"
Typed(lo, hi) ==
  Fin(Scale * DigitsValue([k \in 1..(hi - lo + 1) |-> keys[lo + k - 1].a[1]], 0))

\* C3: binary operators chain left to right without precedence.  After
\* a, op1, b, op2 (no failing division) the display and the pending operand
\* are combine(a, b, op1), the pending operator is op2 and awaiting-new-entry
\* is set; after a, op1, b, op2, c, = the display is the text of
\* combine(combine(a, b, op1), c, op2).
C3_ChainsLeftToRight ==
  \A i, j \in 1..Len(keys) :
    (/\ DigitRun(1, i - 1) /\ keys[i].k = "operator"
     /\ DigitRun(i + 1, j - 1) /\ keys[j].k = "operator")
      => LET n == Len(keys)
             op1 == keys[i].a[1]
             op2 == keys[j].a[1]
             first == calculate(Typed(1, i - 1), Typed(i + 1, j - 1), op1)
         IN  first # Thrown
               => /\ j = n
                       => /\ display = NumToString(first)
                          /\ previousValue = first
                          /\ operation = op2
                          /\ waitingForNewValue
                  /\ (DigitRun(j + 1, n - 1) /\ keys[n].k = "equals")
                       => LET second == calculate(first, Typed(j + 1, n - 1), op2)
                          IN  second # Thrown
                                => display = NumToString(second)

C3_Witness ==
  /\ keys = <<Tok("digit", <<"3">>), Tok("operator", <<"+">>),
              Tok("digit", <<"4">>), Tok("operator", <<"*">>),
              Tok("digit", <<"2">>), Tok("equals", <<>>)>>
  /\ display = <<"1", "4">>

HistoryCapacity == 10

\* The display the last event found was resolved with success: a pending
\* operation by an operator or equals, or a function.
Resolved ==
  \/ /\ Pressed("operator")
     /\ WasPending
     /\ calculate(IF Truthy(before.previousValue) THEN before.previousValue
                  ELSE Zero, WasInput, before.operation) # Thrown
  \/ /\ Pressed("equals")
     /\ WasPending
     /\ calculate(before.previousValue, WasInput, before.operation) # Thrown
  \/ /\ Pressed("function")
     /\ Scientific(LastKey.a, WasInput) # Thrown

\* C4: the history never holds more than 10 entries; a successful binary
\* resolution or function puts its entry (whose result is the new display)
\* first, moves the entries there were down by one in their order, and drops
\* the last of them when there were 10.
C4_HistoryBounded ==
  /\ Len(history) <= HistoryCapacity
  /\ Resolved
       => /\ Len(history) =
               (IF Len(before.history) = HistoryCapacity
                THEN HistoryCapacity ELSE Len(before.history) + 1)
          /\ history[1].result = display
          /\ \A i \in 2..Len(history) : history[i] = before.history[i - 1]

C4_Witness ==
  /\ Resolved
  /\ Len(before.history) = HistoryCapacity
  /\ Len(history) = HistoryCapacity
  /\ \A i \in 1..Len(history) : history[i] # before.history[HistoryCapacity]

\* Two decimal points were entered in a row: before is the state after the
\* first.
TwoDecimals == Len(keys) >= 2

\* C11: entering the decimal point twice in a row leaves exactly the full
\* state that entering it once leaves.
C11_DecimalIdempotent == TwoDecimals => snapshot = before

\* n! over the naturals.
RECURSIVE NatFactorial(_)
NatFactorial(n) == IF n = 0 THEN 1 ELSE n * NatFactorial(n - 1)

\* The display the last event found shows a non-negative integer.
WasNatural ==
  WasInput = NegZero \/ (WasInput.t = "fin" /\ WasInput.q >= 0
                           /\ WasInput.q % Scale = 0)
WasNat == IF WasInput = NegZero THEN 0 ELSE WasInput.q \div Scale

\* entry first, then the entries of prev, ten at most.
Prepended(entry, prev) ==
  /\ Len(history) = (IF Len(prev) = HistoryCapacity
                      THEN HistoryCapacity ELSE Len(prev) + 1)
  /\ history[1] = entry
  /\ \A i \in 2..Len(history) : history[i] = prev[i - 1]

\* C12: the factorial function on a display showing a non-negative integer n
\* sets the display to the text of n! (0! = 1! = 1), prepends the history
\* entry {"!(n)", text of n!} and sets awaiting-new-entry; on any other
\* display (negative, non-integral) it sets the error flag and leaves
\* the history as it was.
C12_Factorial ==
  (Pressed("function") /\ LastKey.a = FnFact)
    => IF WasNatural
       THEN /\ display = NatToString(NatFactorial(WasNat))
            /\ Prepended(
                 [expression |-> <<"!", "(">> \o NatToString(WasNat) \o <<")">>,
                  result |-> NatToString(NatFactorial(WasNat))],
                 before.history)
            /\ waitingForNewValue
       ELSE /\ isError
            /\ history = before.history

C12_Witness ==
  /\ Pressed("function") /\ LastKey.a = FnFact
  /\ before.display = <<"5">>
  /\ display = <<"1", "2", "0">>
  /\ history[1] = [expression |-> <<"!", "(", "5", ")">>,
                   result |-> <<"1", "2", "0">>]
  /\ waitingForNewValue /\ ~before.waitingForNewValue

\* The logged run ends with MS, MC, inputs that are no memory commands, MR.
StoredClearedRecalled ==
  \E i \in 1..Len(keys) :
    /\ i + 1 < Len(keys)
    /\ keys[i] = Tok("memory", <<"MS">>)
    /\ keys[i + 1] = Tok("memory", <<"MC">>)
    /\ \A k \in (i + 2)..(Len(keys) - 1) : keys[k].k # "memory"
    /\ keys[Len(keys)] = Tok("memory", <<"MR">>)

\* C13: MR sets the display to the text of the memory value, sets
\* awaiting-new-entry and leaves the memory as it was; after MS, MC, any
\* inputs that are no memory commands, and MR, the memory is 0 and the
\* display "0".
C13_RecallShowsMemory ==
  /\ (Pressed("memory") /\ LastKey.a = <<"MR">>)
       => /\ display = NumToString(before.memory)
          /\ waitingForNewValue
          /\ memory = before.memory
  /\ StoredClearedRecalled => (memory = Zero /\ display = <<"0">>)

C13_Witness ==
  /\ keys = <<Tok("digit", <<"4">>), Tok("digit", <<"2">>),
              Tok("memory", <<"MS">>), Tok("memory", <<"MC">>),
              Tok("digit", <<"4">>), Tok("memory", <<"MR">>)>>
  /\ before.display = <<"4", "2", "4">>
  /\ display = <<"0">>
  /\ memory = Zero

\* The last event was a combine or a function that failed.
Failed ==
  \/ /\ Pressed("operator") \/ Pressed("equals")
     /\ WasPending /\ before.operation = "/" /\ IsZero(WasInput)
  \/ /\ Pressed("function")
     /\ Scientific(LastKey.a, WasInput) = Thrown

\* C14: the error flag goes from false to true only by a failing combine (a
\* division by zero in an operator or equals) or a failing function, and from
\* true to false only by a digit, a decimal point, clear or allClear; every
\* other input leaves it as it was.
C14_ErrorFlagTransitions ==
  /\ (~before.isError /\ isError) => Failed
  /\ (before.isError /\ ~isError)
       => \/ Pressed("digit") \/ Pressed("decimal")
          \/ Pressed("clear") \/ Pressed("allClear")
  /\ (\/ Pressed("backspace") \/ Pressed("memory")
      \/ Pressed("clearHistory") \/ Pressed("recall"))
       => isError = before.isError

C14_Witness ==
  /\ Pressed("decimal")
  /\ before.isError /\ ~isError
  /\ before.display = ErrorText
  /\ display = <<"0", ".">>

\* C15: equals with no pending operation changes nothing: the display, the
\* pending operand and operator, both flags, the memory and the history are
\* as they were.
C15_EqualsWithoutPendingIsNoOp ==
  (Pressed("equals") /\ ~WasPending) => snapshot = before

C15_Witness ==
  /\ Pressed("equals") /\ ~WasPending
  /\ before.display = <<"5", ".">>
  /\ ~before.waitingForNewValue
  /\ snapshot = before

\* What resolving a pending operation shows: the text of the result, or the
\* error sentinel.
Shown(r) == IF r = Thrown THEN ErrorText ELSE NumToString(r)

\* C16: a successful function or constant leaves the pending operand and
\* operator as they were, prepends one history entry with the expression
\* "<func>(<input>)" and the new display as result, and sets
\* awaiting-new-entry; resolving the pending operation against the new
\* display shows what resolving it against the function's result shows.
C16_FunctionKeepsPending ==
  (Pressed("function") /\ Scientific(LastKey.a, WasInput) # Thrown)
    => /\ previousValue = before.previousValue
       /\ operation = before.operation
       /\ Prepended(
            [expression |->
               LastKey.a \o <<"(">> \o NumToString(WasInput) \o <<")">>,
             result |-> display],
            before.history)
       /\ waitingForNewValue
       /\ WasPending
            => Shown(calculate(previousValue, parseFloat(display), operation))
                 = Shown(calculate(before.previousValue,
                                   Scientific(LastKey.a, WasInput),
                                   before.operation))

C16_Witness ==
  /\ Pressed("function") /\ LastKey.a = FnSquare
  /\ WasPending
  /\ before.previousValue = Fin(Scale * 5) /\ before.operation = "+"
  /\ before.display = <<"5">>
  /\ display = <<"2", "5">>
  /\ previousValue = Fin(Scale * 5) /\ operation = "+"

\* C17: MC, MR, MS, M+ and M- leave the pending operand and operator, the
\* history and the error flag as they were; MC, MS, M+ and M- leave the
\* display and awaiting-new-entry too; and the memory is changed by MC, MS,
\* M+, M- and allClear alone.
C17_MemoryFrame ==
  /\ Pressed("memory")
       => /\ previousValue = before.previousValue
          /\ operation = before.operation
          /\ history = before.history
          /\ isError = before.isError
          /\ LastKey.a # <<"MR">>
               => /\ display = before.display
                  /\ waitingForNewValue = before.waitingForNewValue
  /\ memory # before.memory
       => \/ Pressed("memory") /\ LastKey.a[1] \in {"MC", "MS", "M+", "M-"}
          \/ Pressed("allClear")

C17_Witness ==
  /\ Pressed("memory") /\ LastKey.a = <<"M+">>
  /\ WasPending
  /\ before.history # <<>>
  /\ before.waitingForNewValue
  /\ memory # before.memory

\* C18: a click on an entry of the history sets the display to the entry's
\* result and sets awaiting-new-entry, and leaves the pending operand and
\* operator, the memory, the error flag and the history as they were.
C18_RecallFrame ==
  Pressed("recall")
    => /\ \E i \in 1..Len(before.history) :
            /\ LastKey.a = NatToString(i)
            /\ display = before.history[i].result
       /\ waitingForNewValue
       /\ previousValue = before.previousValue
       /\ operation = before.operation
       /\ memory = before.memory
       /\ isError = before.isError
       /\ history = before.history

C18_Witness ==
  /\ Pressed("recall") /\ LastKey.a = <<"2">>
  /\ Len(history) = 2
  /\ history[1].result # history[2].result
  /\ before.display = history[1].result
  /\ display = history[2].result
  /\ waitingForNewValue

\* C19: an operator and equals resolve a pending operation alike: both
\* compute combine(pending operand, current, pending operator) with the
\* stored operand itself as first argument (a zero or a NaN too), show its
\* text and prepend the entry "<pending operand> <pending operator>
\* <current>" with that text as result.
C19_OperatorResolvesAsEquals ==
  ((Pressed("operator") \/ Pressed("equals")) /\ WasPending)
    => LET result == calculate(before.previousValue, WasInput,
                               before.operation)
       IN  result # Thrown
             => /\ display = NumToString(result)
                /\ history[1] =
                     [expression |->
                        NumToString(before.previousValue)
                          \o <<" ", before.operation, " ">>
                          \o NumToString(WasInput),
                      result |-> NumToString(result)]

\* C20: a pending operand that is present is never NaN.
C20_PendingOperandIsNumber == previousValue # null => previousValue # NaN

=============================================================================
